---- MODULE Spec2Model ----
(***************************************************************************)
(* A model of src/src/codechallenge2025/participant_solution.py:           *)
(* match_single (the per-query scan, the per-locus classification, the     *)
(* admissibility filters, the sort and the cut to ten) and find_matches    *)
(* (the loop over the queries of a batch).                                 *)
(*                                                                         *)
(* Python's float is the IEEE-754 binary64 format.  clr, the allele values *)
(* and the ratios the code compares are floats, so the model carries them  *)
(* as binary64 values and rounds every operation to nearest, ties to even, *)
(* as the hardware does.  TLC's integers are 32 bits wide, so a 53-bit     *)
(* significand is held as a little-endian sequence of 13-bit limbs.        *)
(*                                                                         *)
(* A cell of the two CSV files is a string, kept as the sequence of its    *)
(* characters, or, where pandas.read_csv found the cell empty, the float   *)
(* NaN.                                                                    *)
(*                                                                         *)
(* Four specifications share the actions: Spec (find_matches on a batch),  *)
(* SpecMatchSingle (one call of match_single), SpecLocus (one pass of the  *)
(* loop over the loci, on every pair of raw values) and SpecTopK (the sort *)
(* and the return, after scans that leave more candidates than are         *)
(* returned).                                                              *)
(***************************************************************************)
EXTENDS Integers, Sequences, FiniteSets, TLC

(***************************************************************************)
(* TLC evaluates an operator's argument, and a LET definition, anew at     *)
(* each use.  A value that is costly to compute and used more than once is *)
(* therefore bound first, as the one element of a set:                     *)
(*   Pick({ body : x \in {value} })   is   LET x == value IN body          *)
(* with the value computed once.                                           *)
(***************************************************************************)
Pick(S) == CHOOSE x \in S : TRUE

MaxOf(x, y) == IF x >= y THEN x ELSE y
MinOf(x, y) == IF x <= y THEN x ELSE y

(***************************************************************************)
(* Natural numbers of any size: little-endian sequences of limbs, without  *)
(* leading zero limbs; <<>> is zero.                                       *)
(***************************************************************************)
LimbBits == 12 + 1
Base == 2 ^ LimbBits

RECURSIVE TopIndex(_, _)
TopIndex(s, k) == IF k = 0 \/ s[k] # 0 THEN k ELSE TopIndex(s, k - 1)

\* s without its leading zero limbs
Trim(s0) == Pick({SubSeq(s, 1, TopIndex(s, Len(s))) : s \in {s0}})

RECURSIVE PropFrom(_, _, _)
\* Carry propagation over the column sums cols[k..] with carry c coming in
\* (a column may be negative: a borrow).
PropFrom(cols, k, c) ==
  IF k > Len(cols)
  THEN IF c = 0 THEN <<>> ELSE <<c % Base>> \o PropFrom(cols, k, c \div Base)
  ELSE Pick({<<t % Base>> \o PropFrom(cols, k + 1, t \div Base) :
               t \in {cols[k] + c}})

Prop(cols0) == Pick({PropFrom(cols, 1, 0) : cols \in {cols0}})

Limb(a, k) == IF k >= 1 /\ k <= Len(a) THEN a[k] ELSE 0

BFromInt(n) == PropFrom(<<>>, 1, n)

BAdd(a0, b0) ==
  Pick({Prop([k \in 1..MaxOf(Len(a), Len(b)) |-> Limb(a, k) + Limb(b, k)]) :
          a \in {a0}, b \in {b0}})

\* a - b, for a >= b
BSub(a0, b0) ==
  Pick({Trim(Prop([k \in 1..Len(a) |-> a[k] - Limb(b, k)])) :
          a \in {a0}, b \in {b0}})

RECURSIVE BCmpFrom(_, _, _)
BCmpFrom(a, b, k) ==
  IF k = 0 THEN 0
  ELSE IF a[k] > b[k] THEN 1
  ELSE IF a[k] < b[k] THEN -1
  ELSE BCmpFrom(a, b, k - 1)

\* -1, 0 or 1 as a < b, a = b, a > b
BCmp(a0, b0) ==
  Pick({IF Len(a) > Len(b) THEN 1
        ELSE IF Len(a) < Len(b) THEN -1
        ELSE BCmpFrom(a, b, Len(a)) : a \in {a0}, b \in {b0}})

RECURSIVE ColSum(_, _, _, _)
ColSum(a, b, k, i) ==
  IF i > Len(a) \/ i > k THEN 0
  ELSE (IF k + 1 - i <= Len(b) THEN a[i] * b[k + 1 - i] ELSE 0)
       + ColSum(a, b, k, i + 1)

BMul(a0, b0) ==
  Pick({IF a = <<>> \/ b = <<>> THEN <<>>
        ELSE Trim(Prop([k \in 1..(Len(a) + Len(b) - 1) |->
                          ColSum(a, b, k, 1)])) : a \in {a0}, b \in {b0}})

\* a * d, d a limb
BMulSmall(a0, d) ==
  Pick({IF d = 0 THEN <<>> ELSE Trim(Prop([k \in 1..Len(a) |-> a[k] * d])) :
          a \in {a0}})

\* a * 2^n
BShl(a0, n) ==
  Pick({IF a = <<>> THEN <<>>
        ELSE [k \in 1..(n \div LimbBits) |-> 0]
             \o Prop([k \in 1..Len(a) |-> a[k] * 2 ^ (n % LimbBits)]) :
          a \in {a0}})

\* floor(a / 2^n)
BShr(a0, n) ==
  Pick({Trim([k \in 1..Len(x) |->
                (x[k] \div 2 ^ (n % LimbBits))
                + (Limb(x, k + 1) % 2 ^ (n % LimbBits))
                  * 2 ^ (LimbBits - (n % LimbBits))]) :
          x \in {Pick({IF n \div LimbBits >= Len(a) THEN <<>>
                       ELSE SubSeq(a, n \div LimbBits + 1, Len(a)) :
                         a \in {a0}})}})

RECURSIVE IntBits(_)
IntBits(x) == IF x = 0 THEN 0 ELSE 1 + IntBits(x \div 2)

BitLen(a0) ==
  Pick({IF a = <<>> THEN 0
        ELSE LimbBits * (Len(a) - 1) + IntBits(a[Len(a)]) : a \in {a0}})

BOdd(a0) == Pick({a # <<>> /\ a[1] % 2 = 1 : a \in {a0}})

RECURSIVE BDivFix(_, _, _)
\* The estimate qh of floor(r / b) is never too small: lower it until it fits.
\* The result is <<floor(r / b), r - floor(r / b) * b>>.
BDivFix(r, b, qh) ==
  Pick({IF BCmp(p, r) > 0 THEN BDivFix(r, b, qh - 1) ELSE <<qh, BSub(r, p)>> :
          p \in {BMulSmall(b, qh)}})

RECURSIVE BDivLimbs(_, _, _, _)
\* Long division, one limb of the quotient at a time: n more limbs of rem / b
\* (rem < b, b of MantBits bits) put below q; the result is <<quotient, rest>>.
\* A quotient limb is estimated from the leading limbs of both.
BDivLimbs(rem, b, q, n) ==
  IF n = 0 THEN <<Trim(q), rem>>
  ELSE Pick({BDivLimbs(qd[2], b, <<qd[1]>> \o q, n - 1) :
               qd \in {Pick({BDivFix(r, b,
                               (Limb(r, Len(b) - 1) + Limb(r, Len(b)) * Base
                                + Limb(r, Len(b) + 1) * Base * Base)
                               \div (b[Len(b)] * Base + b[Len(b) - 1])) :
                             r \in {IF rem = <<>> THEN <<>>
                                    ELSE <<0>> \o rem}})}})

\* floor(a * Base^n / b) and whether the division left a rest
BDiv(a0, b0, n) ==
  Pick({IF BCmp(a, b) >= 0
        THEN BDivLimbs(BSub(a, b), b, <<1>>, n)
        ELSE BDivLimbs(a, b, <<>>, n) : a \in {a0}, b \in {b0}})

(***************************************************************************)
(* binary64 values >= 0: [m |-> significand, e |-> exponent], the value    *)
(* m * 2^e with 2^52 <= m < 2^53, or FZero.  The exponents the program     *)
(* reaches stay far inside binary64's range, so there are no subnormals,   *)
(* infinities or overflow to model.                                        *)
(***************************************************************************)
MantBits == 4 * LimbBits + 1
FZero == [m |-> <<>>, e |-> 0]

\* A NaN: the float object number id that float() made.  Two NaNs are neither
\* the same object nor equal, which a set's membership test asks for; the id
\* keeps them apart.  No significand is <<0>>.
NaN(id) == [m |-> <<0>>, e |-> id]
IsNaN(a) == a.m = <<0>>

\* q * 2^e, q of MantBits bits or, after a carry out of the rounding, 2^MantBits
FNormal(q0, e) ==
  Pick({IF BitLen(q) > MantBits THEN [m |-> BShr(q, 1), e |-> e + 1]
        ELSE [m |-> q, e |-> e] : q \in {q0}})

\* n * 2^e with the s low bits of n rounded away, to nearest, ties to even
FRoundBits(n, e, s) ==
  Pick({Pick({FNormal(IF c > 0 \/ (c = 0 /\ BOdd(q)) THEN BAdd(q, <<1>>) ELSE q,
                      e + s) :
                c \in {BCmp(BSub(n, BShl(q, s)), BShl(<<1>>, s - 1))}}) :
          q \in {BShr(n, s)}})

\* The binary64 value nearest to n * 2^e (ties to even), n a natural number.
FRound(n0, e) ==
  Pick({IF n = <<>> THEN FZero
        ELSE Pick({IF len <= MantBits
                   THEN [m |-> BShl(n, MantBits - len),
                         e |-> e - (MantBits - len)]
                   ELSE FRoundBits(n, e, len - MantBits) :
                     len \in {BitLen(n)}}) : n \in {n0}})

FFromInt(n) == FRound(BFromInt(n), 0)

FMul(a0, b0) ==
  Pick({IF a = FZero \/ b = FZero THEN FZero
        ELSE FRound(BMul(a.m, b.m), a.e + b.e) : a \in {a0}, b \in {b0}})

FAdd(a0, b0) ==
  Pick({IF a = FZero THEN b
        ELSE IF b = FZero THEN a
        ELSE FRound(BAdd(BShl(a.m, a.e - MinOf(a.e, b.e)),
                         BShl(b.m, b.e - MinOf(a.e, b.e))), MinOf(a.e, b.e)) :
          a \in {a0}, b \in {b0}})

\* abs(a - b)
FAbsDiff(a0, b0) ==
  Pick({IF IsNaN(a) THEN a
        ELSE IF IsNaN(b) THEN b
        ELSE IF a = FZero THEN b
        ELSE IF b = FZero THEN a
        ELSE Pick({IF BCmp(x, y) >= 0
                   THEN FRound(BSub(x, y), MinOf(a.e, b.e))
                   ELSE FRound(BSub(y, x), MinOf(a.e, b.e)) :
                     x \in {BShl(a.m, a.e - MinOf(a.e, b.e))},
                     y \in {BShl(b.m, b.e - MinOf(a.e, b.e))}}) :
          a \in {a0}, b \in {b0}})

\* a / b, b > 0: the quotient to more bits than a significand holds, and a
\* sticky bit for the rest, rounded once.
FracLimbs == 4 + 1
FDiv(a0, b0) ==
  Pick({IF a = FZero THEN FZero
        ELSE Pick({FRound(BAdd(BShl(qr[1], 1),
                               IF qr[2] = <<>> THEN <<>> ELSE <<1>>),
                          a.e - b.e - (FracLimbs * LimbBits + 1)) :
                     qr \in {BDiv(a.m, b.m, FracLimbs)}}) :
          a \in {a0}, b \in {b0}})

FLess(a0, b0) ==
  Pick({IF IsNaN(a) \/ IsNaN(b) THEN FALSE
        ELSE IF b = FZero THEN FALSE
        ELSE IF a = FZero THEN TRUE
        ELSE a.e < b.e \/ (a.e = b.e /\ BCmp(a.m, b.m) < 0) :
          a \in {a0}, b \in {b0}})

FLeq(a0, b0) ==
  Pick({~IsNaN(a) /\ ~IsNaN(b) /\ (a = b \/ FLess(a, b)) :
          a \in {a0}, b \in {b0}})

FOne == FFromInt(1)

(***************************************************************************)
(* Text.  A raw genotype value is a string, held as a sequence of          *)
(* one-character strings.  The characters drawn are the digits, ".", ",",  *)
(* " ", "-" and "x"; no raw value drawn carries a sign or an exponent, so  *)
(* float() is modelled on unsigned decimal literals and raises ValueError  *)
(* on everything else.                                                     *)
(***************************************************************************)
Digits == {"0", "1", "2", "3", "4", "5", "6", "7", "8", "9"}

DigitVal(c) ==
  CASE c = "0" -> 0 [] c = "1" -> 1 [] c = "2" -> 2 [] c = "3" -> 3
    [] c = "4" -> 4 [] c = "5" -> 5 [] c = "6" -> 6 [] c = "7" -> 7
    [] c = "8" -> 8 [] c = "9" -> 9

RECURSIVE LStrip(_)
LStrip(s) == IF s # <<>> /\ Head(s) = " " THEN LStrip(Tail(s)) ELSE s

RECURSIVE RStrip(_)
RStrip(s) ==
  IF s # <<>> /\ s[Len(s)] = " " THEN RStrip(SubSeq(s, 1, Len(s) - 1)) ELSE s

\* str.strip()
Strip(s) == RStrip(LStrip(s))

\* "," in s
HasComma(s) == \E i \in 1..Len(s) : s[i] = ","

RECURSIVE Split(_)
\* s.split(","): the parts between the commas, empty parts kept
Split(s) ==
  IF ~HasComma(s) THEN <<s>>
  ELSE LET i == CHOOSE j \in 1..Len(s) :
                  s[j] = "," /\ \A k \in 1..(j - 1) : s[k] # ","
       IN  <<SubSeq(s, 1, i - 1)>> \o Split(SubSeq(s, i + 1, Len(s)))

RECURSIVE DecimalValue(_)
\* the number a sequence of digits writes
DecimalValue(ds) ==
  IF ds = <<>> THEN 0
  ELSE 10 * DecimalValue(SubSeq(ds, 1, Len(ds) - 1)) + DigitVal(ds[Len(ds)])

AllDigits(s) == \A i \in 1..Len(s) : s[i] \in Digits

\* float(s), the object it returns being number id: [ok |-> FALSE] is a
\* ValueError.  Of the literals float() reads, the unsigned decimals and "nan"
\* are here.  A decimal's digits n and the count k of those after the point
\* give n / 10^k, rounded once.
ParseFloat(s, id) ==
  Pick({Pick({Pick({
    IF t = <<"n", "a", "n">> THEN [ok |-> TRUE, v |-> NaN(id)]
    ELSE IF Cardinality(dots) > 1 \/ ds = <<>> \/ ~AllDigits(ds)
    THEN [ok |-> FALSE, v |-> FZero]
    ELSE [ok |-> TRUE,
          v  |-> IF dots = {} THEN FFromInt(DecimalValue(ds))
                 ELSE FDiv(FFromInt(DecimalValue(ds)),
                           FFromInt(10 ^ (Len(t) - dot)))] :
      ds \in {SubSeq(t, 1, dot - 1) \o SubSeq(t, dot + 1, Len(t))}}) :
      dot \in {IF dots = {} THEN Len(t) + 1 ELSE CHOOSE i \in dots : TRUE}}) :
      t \in {Strip(s)},
      dots \in {{i \in 1..Len(Strip(s)) : Strip(s)[i] = "."}}})

\* set(map(float, val.split(','))) if ',' in val else {float(val)}:
\* [ok |-> FALSE] when some float() call raises.  The float objects made are
\* numbered from first on, by twos.
ParseAlleles(val, first) ==
  Pick({IF \E i \in 1..Len(parsed) : ~parsed[i].ok
        THEN [ok |-> FALSE, alleles |-> {}]
        ELSE [ok |-> TRUE, alleles |-> {parsed[i].v : i \in 1..Len(parsed)}] :
          parsed \in {Pick({[i \in 1..Len(parts) |->
                              ParseFloat(parts[i], first + 2 * i)] :
                             parts \in {IF HasComma(val) THEN Split(val)
                                        ELSE <<val>>}})}})

\* val in ('-', '')
IsMissing(val) == val = <<"-">> \/ val = <<>>

(***************************************************************************)
(* The float literals of match_single.                                     *)
(***************************************************************************)
Lit_0_15  == FDiv(FFromInt(15), FFromInt(100))
Lit_0_5   == FDiv(FFromInt(5), FFromInt(10))
Lit_0_002 == FDiv(FFromInt(2), FFromInt(1000))
Lit_0_01  == FDiv(FFromInt(1), FFromInt(100))
Lit_0_80  == FDiv(FFromInt(80), FFromInt(100))

MaxExclusions == 4
MinConsistent == 5
TopK == 10

(***************************************************************************)
(* Profiles.  A query profile is a dict and a database row a pandas        *)
(* Series: [keys |-> the keys in order, val |-> the value under each key]. *)
(***************************************************************************)
\* profile.get(key, default)
Get(profile, key, default) ==
  IF key \in DOMAIN profile.val THEN profile.val[key] ELSE default

\* profile['PersonID']
PersonID(profile) == profile.val["PersonID"]

\* loci = [c for c in query_profile.keys() if c != 'PersonID']
Loci(profile) == SelectSeq(profile.keys, LAMBDA c : c # "PersonID")

\* A cell that pandas.read_csv found empty: the float NaN, not a string.
NaNCell == <<"NaN">>

\* str(v) of a cell: a string is itself, the float NaN reads "nan"
Str(v) == IF v = NaNCell THEN <<"n", "a", "n">> ELSE v

\* str(profile.get(locus, '-')).strip()
RawValue(profile, locus) == Strip(Str(Get(profile, locus, <<"-">>)))

(***************************************************************************)
(* match_single: the body of the loop over the loci, on the two stripped   *)
(* values q_val and c_val of one locus.                                    *)
(***************************************************************************)
\* 1.0 / 0.15 and 0.5 / 0.15
MatchLrHom == FDiv(FOne, Lit_0_15)
MatchLrHet == FDiv(Lit_0_5, Lit_0_15)

\* (1.0 if len(c_alleles) == 1 else 0.5) / 0.15
MatchLr(c_alleles) ==
  IF Cardinality(c_alleles) = 1 THEN MatchLrHom ELSE MatchLrHet

\* 0.002 / 0.15
MutationLr == FDiv(Lit_0_002, Lit_0_15)

\* any(abs(qa - ca) <= 1.0 for qa in q_alleles for ca in c_alleles
\*     if 0 < abs(qa - ca) <= 1.0)
MutationRange(q_alleles, c_alleles) ==
  \E qa \in q_alleles : \E ca \in c_alleles :
    Pick({FLess(FZero, d) /\ FLeq(d, FOne) /\ FLeq(d, FOne) :
            d \in {FAbsDiff(qa, ca)}})

\* Seeded fault: the test for two singletons is made before the test for a
\* mutation.
Classify_swapped(q_alleles, c_alleles) ==
  IF q_alleles \cap c_alleles # {} THEN "match"
  ELSE IF Cardinality(q_alleles) = 1 /\ Cardinality(c_alleles) = 1
  THEN "dropout"
  ELSE IF MutationRange(q_alleles, c_alleles) THEN "mutation"
  ELSE "exclusion"

\* The if / elif chain on the parsed allele sets, the first test that holds
\* deciding.
Classify(q_alleles, c_alleles) ==
  IF q_alleles \cap c_alleles # {} THEN "match"
  ELSE IF MutationRange(q_alleles, c_alleles) THEN "mutation"
  ELSE IF Cardinality(q_alleles) = 1 /\ Cardinality(c_alleles) = 1
  THEN "dropout"
  ELSE "exclusion"

\* What one pass of the loop does with the values: "missing" (the continue of
\* line 62), "raise" (a float() call of lines 64-65 raises ValueError), or
\* the branch of the chain taken.
Outcome(q_val, c_val) ==
  IF IsMissing(q_val) \/ IsMissing(c_val) THEN "missing"
  ELSE Pick({IF ~q.ok \/ ~c.ok THEN "raise"
             ELSE Classify(q.alleles, c.alleles) :
               q \in {ParseAlleles(q_val, 0)}, c \in {ParseAlleles(c_val, 1)}})

\* Seeded fault: the missing locus is passed over without being counted.
CountMissing_uncounted(a) == a

\* inconclusive += 1; continue
CountMissing(a) == [a EXCEPT !.inconclusive = @ + 1]

\* compared += 1; identity_matches += 1 when q_alleles == c_alleles
Compare(a, q_alleles, c_alleles) ==
  [a EXCEPT !.compared = @ + 1,
            !.identity_matches = IF q_alleles = c_alleles THEN @ + 1 ELSE @]

\* consistent += 1; clr *= lr
OnMatch(a, c_alleles) ==
  [a EXCEPT !.consistent = @ + 1, !.clr = FMul(@, MatchLr(c_alleles))]

\* mutated += 1; clr *= 0.002 / 0.15
OnMutation(a) == [a EXCEPT !.mutated = @ + 1, !.clr = FMul(@, MutationLr)]

\* inconclusive += 1; clr *= 0.5
OnDropout(a) == [a EXCEPT !.inconclusive = @ + 1, !.clr = FMul(@, Lit_0_5)]

\* exclusions += 1; clr *= 0.01
OnExclusion(a) == [a EXCEPT !.exclusions = @ + 1, !.clr = FMul(@, Lit_0_01)]

\* The counters after one pass of the loop that does not raise; a holds the
\* counters before it.
Tally(a, q_val, c_val) ==
  IF IsMissing(q_val) \/ IsMissing(c_val) THEN CountMissing(a)
  ELSE Pick({Pick({IF o = "match" THEN OnMatch(b, c_alleles)
                   ELSE IF o = "mutation" THEN OnMutation(b)
                   ELSE IF o = "dropout" THEN OnDropout(b)
                   ELSE OnExclusion(b) :
                     o \in {Classify(q_alleles, c_alleles)},
                     b \in {Compare(a, q_alleles, c_alleles)}}) :
               q_alleles \in {ParseAlleles(q_val, 0).alleles},
               c_alleles \in {ParseAlleles(c_val, 1).alleles}})

\* the counters as a candidate's scoring starts (lines 47-53)
FreshCounters ==
  [clr |-> FOne, consistent |-> 0, mutated |-> 0, inconclusive |-> 0,
   exclusions |-> 0, identity_matches |-> 0, compared |-> 0]

(***************************************************************************)
(* match_single: after the loci of one candidate                           *)
(***************************************************************************)
\* Seeded fault: no row is taken for the query's own.
IsSelf_never(cand, query) == FALSE

\* cand_id == query_id
IsSelf(cand, query) == cand = query

\* Seeded fault: the exclusions are not looked at.
BadMatch_consistent_only(a) == a.consistent < MinConsistent

\* exclusions > 4 or consistent < 5
BadMatch(a) == a.exclusions > MaxExclusions \/ a.consistent < MinConsistent

\* Seeded fault: >= in place of >.
SamePerson_geq(a) ==
  /\ a.compared > 0
  /\ FLeq(Lit_0_80, FDiv(FFromInt(a.identity_matches), FFromInt(a.compared)))

\* compared > 0 and identity_matches / compared > 0.80
SamePerson(a) ==
  /\ a.compared > 0
  /\ FLess(Lit_0_80, FDiv(FFromInt(a.identity_matches), FFromInt(a.compared)))

\* clr / (clr + 1.0) if clr > 0 else 0.0
Posterior(c) == IF FLess(FZero, c) THEN FDiv(c, FAdd(c, FOne)) ELSE FZero

\* the dict appended to candidates
Entry(row, a) ==
  [person_id         |-> PersonID(row),
   clr               |-> a.clr,
   posterior         |-> Posterior(a.clr),
   consistent_loci   |-> a.consistent,
   mutated_loci      |-> a.mutated,
   inconclusive_loci |-> a.inconclusive]

(***************************************************************************)
(* match_single: the sort and the cut                                      *)
(***************************************************************************)
\* key=lambda x: -x['clr']: x sorts before y when -x.clr < -y.clr
KeyLess(x, y) == FLess(y.clr, x.clr)

\* x put into the sorted list s behind every entry whose key is not greater
InsertSorted(s0, x0) ==
  Pick({Pick({SubSeq(s, 1, at - 1) \o <<x>> \o SubSeq(s, at, Len(s)) :
                at \in {Pick({IF before = {} THEN Len(s) + 1
                              ELSE CHOOSE i \in before :
                                     \A j \in before : i <= j :
                                before \in {{i \in 1..Len(s) :
                                               KeyLess(x, s[i])}}})}}) :
          s \in {s0}, x \in {x0}})

RECURSIVE SortFrom(_, _, _)
\* the entries s[k..] put, in their order, into the sorted list done
SortFrom(s, k, done) ==
  IF k > Len(s) THEN done
  ELSE Pick({SortFrom(s, k + 1, d) : d \in {InsertSorted(done, s[k])}})

\* list.sort: ascending in the key, and stable
SortCandidates(s0) == Pick({SortFrom(s, 1, <<>>) : s \in {s0}})

\* Seeded fault: the cut is one entry late.
Top_late(s0) == Pick({SubSeq(s, 1, MinOf(TopK + 1, Len(s))) : s \in {s0}})

\* s[:10]
Top(s0) == Pick({SubSeq(s, 1, MinOf(TopK, Len(s))) : s \in {s0}})

(***************************************************************************)
(* The state                                                               *)
(***************************************************************************)
VARIABLES
  database,          \* database_df: the sequence of its rows
  queries,           \* queries_df: the sequence of its rows
  qi,                \* find_matches: how many queries have been taken
  results,           \* find_matches: results
  pc,                \* where control is
  query_profile,     \* match_single's first argument
  ri,                \* match_single: how many rows iterrows() has yielded
  candidates,        \* match_single: candidates
  li,                \* match_single: how many loci the inner loop has done
  clr, consistent, mutated, inconclusive, exclusions,
  identity_matches, compared

counters ==
  <<clr, consistent, mutated, inconclusive, exclusions, identity_matches,
    compared>>
inputs == <<database, queries>>
vars ==
  <<database, queries, qi, results, pc, query_profile, ri, candidates, li,
    clr, consistent, mutated, inconclusive, exclusions, identity_matches,
    compared>>

\* the counters of the candidate being scored
Counters ==
  [clr |-> clr, consistent |-> consistent, mutated |-> mutated,
   inconclusive |-> inconclusive, exclusions |-> exclusions,
   identity_matches |-> identity_matches, compared |-> compared]

SetCounters(a0) ==
  \E a \in {a0} :
    /\ clr' = a.clr
    /\ consistent' = a.consistent
    /\ mutated' = a.mutated
    /\ inconclusive' = a.inconclusive
    /\ exclusions' = a.exclusions
    /\ identity_matches' = a.identity_matches
    /\ compared' = a.compared

query_id == PersonID(query_profile)
loci == Loci(query_profile)
candidate_row == database[ri]
cand_id == PersonID(candidate_row)
locus == loci[li + 1]
q_val == RawValue(query_profile, locus)
c_val == RawValue(candidate_row, locus)

(***************************************************************************)
(* find_matches                                                            *)
(***************************************************************************)
\* for _, query_row in queries_df.iterrows(): the next query is handed to
\* match_single, which sets up its scan.
NextQuery ==
  /\ pc = "queries"
  /\ qi < Len(queries)
  /\ qi' = qi + 1
  /\ query_profile' = queries[qi + 1]
  /\ candidates' = <<>>
  /\ ri' = 0
  /\ pc' = "rows"
  /\ UNCHANGED <<inputs, results, li, counters>>

\* the loop over the queries is exhausted: return results
AllProcessed ==
  /\ pc = "queries"
  /\ qi = Len(queries)
  /\ pc' = "done"
  /\ UNCHANGED <<inputs, qi, results, query_profile, ri, candidates, li,
                 counters>>

(***************************************************************************)
(* match_single: the scan over the rows of the database                    *)
(***************************************************************************)
\* if cand_id == query_id: continue
SkipSelf ==
  /\ pc = "rows"
  /\ ri < Len(database)
  /\ IsSelf(PersonID(database[ri + 1]), query_id)
  /\ ri' = ri + 1
  /\ UNCHANGED <<inputs, qi, results, pc, query_profile, candidates, li,
                 counters>>

\* the next row is another person's: the counters are set for it
BeginCandidate ==
  /\ pc = "rows"
  /\ ri < Len(database)
  /\ ~IsSelf(PersonID(database[ri + 1]), query_id)
  /\ ri' = ri + 1
  /\ SetCounters(FreshCounters)
  /\ li' = 0
  /\ pc' = "loci"
  /\ UNCHANGED <<inputs, qi, results, query_profile, candidates>>

(***************************************************************************)
(* match_single: one pass of the loop over the loci, by its outcome        *)
(***************************************************************************)
InLoop == pc = "loci" /\ li < Len(loci)

\* li moves on; nothing but the counters and li changes in a pass
NextLocus ==
  /\ li' = li + 1
  /\ UNCHANGED <<inputs, qi, results, pc, query_profile, ri, candidates>>

\* q_val in ('-', '') or c_val in ('-', ''): inconclusive += 1; continue
LocusMissing ==
  /\ InLoop
  /\ Outcome(q_val, c_val) = "missing"
  /\ SetCounters(Tally(Counters, q_val, c_val))
  /\ NextLocus

\* if q_alleles & c_alleles
LocusMatch ==
  /\ InLoop
  /\ Outcome(q_val, c_val) = "match"
  /\ SetCounters(Tally(Counters, q_val, c_val))
  /\ NextLocus

\* elif any(... 0 < abs(qa - ca) <= 1.0)
LocusMutation ==
  /\ InLoop
  /\ Outcome(q_val, c_val) = "mutation"
  /\ SetCounters(Tally(Counters, q_val, c_val))
  /\ NextLocus

\* elif len(q_alleles) == 1 and len(c_alleles) == 1
LocusDropout ==
  /\ InLoop
  /\ Outcome(q_val, c_val) = "dropout"
  /\ SetCounters(Tally(Counters, q_val, c_val))
  /\ NextLocus

\* else
LocusExclusion ==
  /\ InLoop
  /\ Outcome(q_val, c_val) = "exclusion"
  /\ SetCounters(Tally(Counters, q_val, c_val))
  /\ NextLocus

\* float() raises ValueError; nothing in match_single or find_matches
\* catches it, so the call of find_matches ends with it
LocusParseError ==
  /\ InLoop
  /\ Outcome(q_val, c_val) = "raise"
  /\ pc' = "raised"
  /\ UNCHANGED <<inputs, qi, results, query_profile, ri, candidates, li,
                 counters>>

(***************************************************************************)
(* match_single: the filters and the append                                *)
(***************************************************************************)
LoopDone == pc = "loci" /\ li = Len(loci)

RejectBadMatch ==
  /\ LoopDone
  /\ BadMatch(Counters)
  /\ pc' = "rows"
  /\ UNCHANGED <<inputs, qi, results, query_profile, ri, candidates, li,
                 counters>>

RejectSamePerson ==
  /\ LoopDone
  /\ ~BadMatch(Counters)
  /\ SamePerson(Counters)
  /\ pc' = "rows"
  /\ UNCHANGED <<inputs, qi, results, query_profile, ri, candidates, li,
                 counters>>

AppendCandidate ==
  /\ LoopDone
  /\ ~BadMatch(Counters)
  /\ ~SamePerson(Counters)
  /\ candidates' = Append(candidates, Entry(candidate_row, Counters))
  /\ pc' = "rows"
  /\ UNCHANGED <<inputs, qi, results, query_profile, ri, li, counters>>

(***************************************************************************)
(* match_single returns; find_matches stores the ranking                   *)
(***************************************************************************)
\* candidates.sort(key=lambda x: -x['clr']); return candidates[:10]; and the
\* caller's top_candidates[:10]
SortAndReturn ==
  /\ pc = "rows"
  /\ ri = Len(database)
  /\ candidates' = SortCandidates(candidates)
  /\ results' = Append(results,
       [query_id       |-> query_id,
        top_candidates |-> Top(Top(SortCandidates(candidates)))])
  /\ pc' = "queries"
  /\ UNCHANGED <<inputs, qi, query_profile, ri, li, counters>>

MatchSingleStep ==
  \/ SkipSelf \/ BeginCandidate
  \/ LocusMissing \/ LocusParseError
  \/ LocusMatch \/ LocusMutation \/ LocusDropout \/ LocusExclusion
  \/ RejectBadMatch \/ RejectSamePerson \/ AppendCandidate
  \/ SortAndReturn

Next == NextQuery \/ AllProcessed \/ MatchSingleStep

(***************************************************************************)
(* match_single as a function of its arguments: what the steps above       *)
(* compute for one query and one database.                                 *)
(***************************************************************************)
\* a ValueError leaves the function: no value is returned
Raised == [raised |-> TRUE, value |-> <<>>]
Returned(v) == [raised |-> FALSE, value |-> v]

RECURSIVE ScoreFrom(_, _, _, _)
\* the loop over the loci from the k-th on: the counters at its end
ScoreFrom(query, row, k, a) ==
  IF k > Len(Loci(query)) THEN Returned(a)
  ELSE Pick({IF Outcome(qv, cv) = "raise" THEN Raised
             ELSE Pick({ScoreFrom(query, row, k + 1, b) :
                          b \in {Tally(a, qv, cv)}}) :
               qv \in {RawValue(query, Loci(query)[k])},
               cv \in {RawValue(row, Loci(query)[k])}})

Score(query, row) == ScoreFrom(query, row, 1, FreshCounters)

RECURSIVE ScanFrom(_, _, _, _)
\* the loop over the rows from the k-th on: candidates at its end
ScanFrom(query, db, k, cands) ==
  IF k > Len(db) THEN Returned(cands)
  ELSE IF IsSelf(PersonID(db[k]), PersonID(query))
  THEN ScanFrom(query, db, k + 1, cands)
  ELSE Pick({IF a.raised THEN Raised
             ELSE IF BadMatch(a.value) \/ SamePerson(a.value)
             THEN ScanFrom(query, db, k + 1, cands)
             ELSE Pick({ScanFrom(query, db, k + 1, c) :
                          c \in {Append(cands, Entry(db[k], a.value))}}) :
               a \in {Score(query, db[k])}})

\* the list match_single returns
MatchSingle(query, db) ==
  Pick({IF scan.raised THEN Raised
        ELSE Returned(Top(SortCandidates(scan.value))) :
          scan \in {ScanFrom(query, db, 1, <<>>)}})

(***************************************************************************)
(* The inputs.  Raw genotype values, the loci of a database, and profiles  *)
(* built from them.                                                        *)
(***************************************************************************)
LocusNames ==
  <<"CSF1PO", "D3S1358", "D5S818", "D7S820", "D8S1179", "D13S317", "D16S539",
    "D18S51", "D21S11", "FGA", "TH01", "TPOX", "vWA", "D1S1656", "D2S441",
    "D2S1338", "D10S1248", "D12S391", "D19S433", "D22S1045">>

V_9_10  == <<"9", ",", "1", "0">>
V_9_11  == <<"9", ",", "1", "1">>
V_9     == <<"9">>
V_11    == <<"1", "1">>
V_12    == <<"1", "2">>
V_12_13 == <<"1", "2", ",", "1", "3">>
V_dash  == <<"-">>
V_blank == <<" ">>
V_bad   == <<"9", ",", "x">>

\* the profile of person id with the values vals at the first Len(vals) loci
Profile(id, vals) ==
  LET names == SubSeq(LocusNames, 1, Len(vals))
  IN  [keys |-> <<"PersonID">> \o names,
       val  |-> [k \in {"PersonID"} \cup {names[i] : i \in 1..Len(names)} |->
                   IF k = "PersonID" THEN id
                   ELSE vals[CHOOSE i \in 1..Len(names) : names[i] = k]]]

Rep(n, v) == [i \in 1..n |-> v]

\* The query every query of the pools is a prefix of: heterozygous at every
\* locus but the sixth.
QueryValues == Rep(5, V_9_10) \o <<V_9>> \o Rep(14, V_9_10)

\* Genotypes of database rows, by what they are to QueryValues.
\* homozygous 9 everywhere: a match at every locus
G_hom == Rep(20, V_9)
\* heterozygous 9,11 everywhere: a match at every locus
G_het == Rep(20, V_9_11)
\* set-equal to the query at 8 of the first 10 loci and at 16 of all 20
G_80 == Rep(4, V_9_10) \o <<V_9, V_9>> \o Rep(3, V_9_10) \o <<V_9>>
        \o Rep(8, V_9_10) \o <<V_9, V_9>>
\* set-equal to the query at 9 of the first 10 loci and at 18 of all 20
G_90 == Rep(5, V_9_10) \o <<V_9>> \o Rep(3, V_9_10) \o <<V_9>>
        \o Rep(9, V_9_10) \o <<V_9>>
\* five exclusions, then matches
G_excl == Rep(5, V_12_13) \o Rep(15, V_9)
\* four matches, then nothing typed
G_few == Rep(4, V_9) \o Rep(16, V_dash)
\* match, mutation, dash, whitespace, empty cell, dropout, then matches and
\* exclusions
G_mix == <<V_9, V_11, V_dash, V_blank, NaNCell, V_12, V_9, V_9, V_9, V_9,
           V_12_13, V_12_13, V_12_13>> \o Rep(7, V_9)
\* a value float() cannot read at the third locus
G_bad == <<V_9, V_9, V_bad>> \o Rep(17, V_9)

Q1 == Profile("Q1", SubSeq(QueryValues, 1, 1))
Q2 == Profile("Q2", SubSeq(QueryValues, 1, 10))
Q3 == Profile("Q3", QueryValues)

\* rows of every kind, one of them with the PersonID of the query Q2
ScanRows ==
  { Profile("P1", G_hom), Profile("Q2", G_hom),
    Profile("P3", G_80), Profile("P4", G_90), Profile("P5", G_excl),
    Profile("P6", G_few), Profile("P7", G_mix), Profile("P8", G_bad) }

\* and a second person with the genotype of P1
RowPool == ScanRows \cup {Profile("P2", G_hom)}

MaxRows == 2
MaxQueries == 2

\* the sequences over S of length at most n
SeqsUpTo(S, n) == UNION {[1..k -> S] : k \in 0..n}

\* no candidate is being scored
Idle ==
  /\ li = 0
  /\ clr = FOne
  /\ consistent = 0
  /\ mutated = 0
  /\ inconclusive = 0
  /\ exclusions = 0
  /\ identity_matches = 0
  /\ compared = 0

(***************************************************************************)
(* Spec: find_matches on a database and a batch of queries.                *)
(***************************************************************************)
Init ==
  /\ database \in SeqsUpTo(RowPool, MaxRows)
  /\ queries \in SeqsUpTo({Q2, Q3}, MaxQueries)
  /\ qi = 0
  /\ results = <<>>
  /\ pc = "queries"
  /\ query_profile = Profile("", <<>>)
  /\ ri = 0
  /\ candidates = <<>>
  /\ Idle

Spec == Init /\ [][Next]_vars

(***************************************************************************)
(* SpecMatchSingle: one call of match_single, from its entry to its        *)
(* return.                                                                 *)
(***************************************************************************)
InitMatchSingle ==
  /\ database \in SeqsUpTo(ScanRows, MaxRows)
  /\ query_profile \in {Q1, Q2}
  /\ queries = <<query_profile>>
  /\ qi = 1
  /\ results = <<>>
  /\ pc = "rows"
  /\ ri = 0
  /\ candidates = <<>>
  /\ Idle

SpecMatchSingle == InitMatchSingle /\ [][MatchSingleStep]_vars

(***************************************************************************)
(* SpecLocus: one pass of the loop over the loci, on every pair of raw     *)
(* values, the candidate's locus column being there or not.                *)
(***************************************************************************)
RawValues ==
  { <<"9">>, <<"9", ",", "9">>, <<"9", ",", "1", "0">>, <<"1", "0", ",", "9">>,
    <<"9", ".", "3">>, <<"1", "0", ".", "3">>, <<"1", "0">>, <<"1", "1">>,
    <<"1", "2">>, <<"1", "2", ",", "1", "3">>, <<"8", ",", "1", "0", ".", "3">>,
    <<" ", "9", " ">>, <<"9", ",", " ", "1", "0">>,
    <<"-">>, <<>>, <<" ">>, <<" ", "-", " ">>, NaNCell,
    <<"9", ",", "x">>, <<"9", ",">> }

LocusRows ==
  {Profile("P1", <<c>>) : c \in RawValues} \cup {Profile("P1", <<>>)}

InitLocus ==
  /\ query_profile \in {Profile("Q1", <<q>>) : q \in RawValues}
  /\ database \in {<<row>> : row \in LocusRows}
  /\ queries = <<query_profile>>
  /\ qi = 1
  /\ results = <<>>
  /\ pc = "loci"
  /\ ri = 1
  /\ candidates = <<>>
  /\ Idle

LocusStep ==
  \/ LocusMissing \/ LocusParseError
  \/ LocusMatch \/ LocusMutation \/ LocusDropout \/ LocusExclusion

SpecLocus == InitLocus /\ [][LocusStep]_vars

(***************************************************************************)
(* SpecTopK: the sort and the return of match_single, after the scan of a  *)
(* database of at most MaxSurvivors rows, weak matches of the query but    *)
(* for at most one row, a strong match or a row the filters reject.        *)
(***************************************************************************)
MaxSurvivors == 11

Q5 == Profile("Q5", SubSeq(QueryValues, 1, 5))

RowIds ==
  <<"R01", "R02", "R03", "R04", "R05", "R06", "R07", "R08", "R09", "R10",
    "R11", "R12", "R13", "R14">>

TopKDatabases ==
  UNION {{[i \in 1..n |-> Profile(RowIds[i], IF i = a THEN g ELSE G_het)] :
            a \in 0..n, g \in {G_hom, G_excl}} :
         n \in 0..MaxSurvivors}

\* match_single has scanned the database: candidates holds what the scan
\* appended
InitTopK ==
  /\ database \in TopKDatabases
  /\ query_profile = Q5
  /\ queries = <<query_profile>>
  /\ qi = 1
  /\ results = <<>>
  /\ pc = "rows"
  /\ ri = Len(database)
  /\ candidates = ScanFrom(query_profile, database, 1, <<>>).value
  /\ Idle

SpecTopK == InitTopK /\ [][SortAndReturn]_vars

(***************************************************************************)
(* The properties.                                                         *)
(***************************************************************************)
\* the ranking match_single returned last
Ranking == results[Len(results)].top_candidates
\* match_single returns in this step
Returns == pc = "rows" /\ pc' = "queries"
\* the loop over the loci of a candidate is left in this step
LeavesLoop == pc = "loci" /\ pc' = "rows"
\* the person_ids of a list of entries, in order
Ids(s) == [i \in 1..Len(s) |-> s[i].person_id]

\* C1: the list match_single returns is the top 10 of the candidates that
\* survived the scan: it has min(10, number of survivors) entries, every
\* entry is a survivor and none comes twice, the clr does not increase from
\* an entry to the next, and no survivor left out has a clr greater than an
\* entry's.
C1_TopK ==
  [][Returns =>
       LET r == results'[Len(results')].top_candidates
           n == Len(candidates)
       IN  /\ Len(r) = IF n < 10 THEN n ELSE 10
           /\ \A i \in 1..Len(r) : \E j \in 1..n : candidates[j] = r[i]
           /\ \A i, k \in 1..Len(r) : i # k => r[i].person_id # r[k].person_id
           /\ \A i \in 1..(Len(r) - 1) : FLeq(r[i + 1].clr, r[i].clr)
           /\ \A j \in 1..n :
                (\A i \in 1..Len(r) : r[i] # candidates[j]) =>
                  \A i \in 1..Len(r) : FLeq(candidates[j].clr, r[i].clr)]_vars

\* C1: eleven candidates survived, not all with the same clr, and ten were
\* returned.
C1_Witness ==
  /\ pc = "queries"
  /\ Len(results) = 1
  /\ Len(candidates) = 11
  /\ Len(Ranking) = 10
  /\ \E i, j \in 1..Len(candidates) :
       FLess(candidates[i].clr, candidates[j].clr)

\* C2: a candidate that ends the loop over the loci with more than 4
\* exclusions or fewer than 5 consistent loci is not appended, whatever its
\* clr; what is appended is the entry of the row scored, with at least 5
\* consistent loci; the entries returned are among those appended; and for a
\* query of fewer than 5 loci nothing is appended or returned.
C2_Thresholds ==
  [][/\ LeavesLoop /\ (exclusions > 4 \/ consistent < 5) =>
          candidates' = candidates
     /\ candidates' # candidates /\ ~Returns =>
          /\ LeavesLoop
          /\ exclusions <= 4 /\ consistent >= 5
          /\ Len(candidates') = Len(candidates) + 1
          /\ SubSeq(candidates', 1, Len(candidates)) = candidates
          /\ candidates'[Len(candidates')].person_id = PersonID(database[ri])
          /\ candidates'[Len(candidates')].consistent_loci = consistent
     /\ Returns =>
          \A i \in 1..Len(results'[Len(results')].top_candidates) :
            /\ \E j \in 1..Len(candidates) :
                 candidates[j] = results'[Len(results')].top_candidates[i]
            /\ results'[Len(results')].top_candidates[i].consistent_loci >= 5
     /\ Len(Loci(query_profile)) < 5 =>
          /\ candidates' = <<>>
          /\ \A k \in 1..Len(results') : results'[k].top_candidates = <<>>]_vars

\* C2: a row with more than 4 exclusions and at least 5 consistent loci has
\* been scored and is not among the candidates.
C2_Witness ==
  /\ pc = "rows"
  /\ ri > 0
  /\ li = Len(Loci(query_profile))
  /\ exclusions > 4
  /\ consistent >= 5
  /\ \A j \in 1..Len(candidates) :
       candidates[j].person_id # PersonID(database[ri])

\* C3: a candidate with compared > 0 and identity_matches / compared > 0.80
\* (5 * identity_matches > 4 * compared) is not appended; one that the
\* thresholds of C2 let through and that has compared = 0 or set-equal
\* values at no more than 80% of the compared loci is appended.
C3_Duplicate ==
  [][/\ LeavesLoop /\ compared > 0 /\ 5 * identity_matches > 4 * compared =>
          candidates' = candidates
     /\ LeavesLoop /\ exclusions <= 4 /\ consistent >= 5
          /\ (compared = 0 \/ 5 * identity_matches <= 4 * compared) =>
          /\ Len(candidates') = Len(candidates) + 1
          /\ candidates'[Len(candidates')].person_id =
               PersonID(database[ri])]_vars

\* C3: a row set-equal to the query at exactly 80% of the compared loci has
\* been appended, after a row set-equal at more than 80% was not.
C3_Witness ==
  /\ pc = "rows"
  /\ ri = 2
  /\ li = Len(Loci(query_profile))
  /\ compared > 0
  /\ 5 * identity_matches = 4 * compared
  /\ Len(candidates) = 1
  /\ candidates[1].person_id = PersonID(database[2])
  /\ PersonID(database[1]) = "P4"

\* C4: a row with the query's PersonID is passed over before any of its loci
\* is scored, and no entry of the candidates or of a returned list has the
\* query's PersonID.
C4_SelfExclusion ==
  [][/\ pc = "rows" /\ ri' = ri + 1
          /\ PersonID(database[ri + 1]) = PersonID(query_profile) =>
          /\ pc' = "rows"
          /\ UNCHANGED <<candidates, li, counters>>
     /\ \A j \in 1..Len(candidates') :
          candidates'[j].person_id # PersonID(query_profile')
     /\ \A k \in 1..Len(results') :
          \A i \in 1..Len(results'[k].top_candidates) :
            results'[k].top_candidates[i].person_id # results'[k].query_id]_vars

\* C4: match_single has returned a list that is not empty from a database
\* with a row of the query's PersonID whose genotype passes the filters.
C4_Witness ==
  /\ pc = "queries"
  /\ Len(results) = 1
  /\ Ranking # <<>>
  /\ \E i \in 1..Len(database) :
       database[i] = Profile(PersonID(query_profile), G_hom)

\* C5: when the call of find_matches has ended, every query of the batch has
\* its ranking, also when a value of a database row could not be parsed.
C5_ParseErrorScoped ==
  (pc = "done" \/ pc = "raised") => Len(results) = Len(queries)

\* C6, as stated: at the end of the loop over the loci, consistent + mutated
\* + inconclusive + exclusions = compared.
C6_SumIsCompared ==
  pc = "loci" /\ li = Len(Loci(query_profile)) =>
    consistent + mutated + inconclusive + exclusions = compared

\* the loci among the first n of the query where a side is missing
MissingAmong(n) ==
  {k \in 1..n :
     \E v \in {RawValue(query_profile, Loci(query_profile)[k]),
               RawValue(database[ri], Loci(query_profile)[k])} :
       v = <<"-">> \/ v = <<>>}

\* C6, amended: all through the loop over the loci, consistent + mutated +
\* inconclusive + exclusions is the number of loci done, which is compared
\* plus the number of loci done where a side is missing.
C6_SumIsLociDone ==
  pc = "loci" =>
    /\ consistent + mutated + inconclusive + exclusions = li
    /\ li = compared + Cardinality(MissingAmong(li))

\* C6: the loop over the loci has ended for a row that has a value at some
\* loci of the query and none at others.
C6_Witness ==
  /\ pc = "loci"
  /\ li = Len(Loci(query_profile))
  /\ 0 < compared
  /\ compared < li

\* C7: every entry of every ranking has clr > 0 and posterior < 1.0.
C7_PosteriorBelowOne ==
  \A k \in 1..Len(results) :
    \A i \in 1..Len(results[k].top_candidates) :
      /\ FLess(FZero, results[k].top_candidates[i].clr)
      /\ FLeq(FZero, results[k].top_candidates[i].posterior)
      /\ FLess(results[k].top_candidates[i].posterior, FFromInt(1))

\* the orders the rows of db can come in
Orders(db) ==
  {[i \in 1..Len(db) |-> db[f[i]]] :
     f \in {g \in [1..Len(db) -> 1..Len(db)] :
              \A i, j \in 1..Len(db) : i # j => g[i] # g[j]}}

\* C8: the person_ids match_single returned, rank by rank, are those it
\* returns for the same rows in any other order.
C8_OrderIndependent ==
  pc = "queries" /\ results # <<>> =>
    \A db \in Orders(database) :
      Ids(MatchSingle(query_profile, db).value) = Ids(Ranking)

\* the multipliers of the spec's rules
LrMatchHomozygous == FDiv(FFromInt(1), FDiv(FFromInt(15), FFromInt(100)))
LrMatchHeterozygous ==
  FDiv(FDiv(FFromInt(5), FFromInt(10)), FDiv(FFromInt(15), FFromInt(100)))
LrMutation ==
  FDiv(FDiv(FFromInt(2), FFromInt(1000)), FDiv(FFromInt(15), FFromInt(100)))
LrDropout == FDiv(FFromInt(5), FFromInt(10))
LrExclusion == FDiv(FFromInt(1), FFromInt(100))

\* the counters change by d and clr is multiplied by lr in this step
Counted(d, lr) ==
  /\ consistent' = consistent + d.consistent
  /\ mutated' = mutated + d.mutated
  /\ inconclusive' = inconclusive + d.inconclusive
  /\ exclusions' = exclusions + d.exclusions
  /\ clr' = FMul(clr, lr)

None == [consistent |-> 0, mutated |-> 0, inconclusive |-> 0, exclusions |-> 0]

\* the rule of the spec for the allele sets qa and ca, applied in this step
Rule(qa, ca) ==
  IF \E x \in qa : x \in ca
  THEN Counted([None EXCEPT !.consistent = 1],
               IF Cardinality(ca) = 1 THEN LrMatchHomozygous
               ELSE LrMatchHeterozygous)
  ELSE IF \E x \in qa : \E y \in ca :
            FLess(FZero, FAbsDiff(x, y)) /\ FLeq(FAbsDiff(x, y), FFromInt(1))
  THEN Counted([None EXCEPT !.mutated = 1], LrMutation)
  ELSE IF Cardinality(qa) = 1 /\ Cardinality(ca) = 1
  THEN Counted([None EXCEPT !.inconclusive = 1], LrDropout)
  ELSE Counted([None EXCEPT !.exclusions = 1], LrExclusion)

\* C9: a pass of the loop over the loci on two values that are sets of one
\* or two numbers applies the first rule that holds of match, mutation,
\* dropout, exclusion: that rule's counter goes up by one, the others stay,
\* and clr is multiplied by that rule's multiplier, the homozygous one for a
\* candidate of one distinct allele such as "9,9".
C9_DecisionTree ==
  [][li' = li + 1 =>
       LET q == ParseAlleles(q_val, 0)
           c == ParseAlleles(c_val, 1)
       IN  (/\ q_val \notin {<<"-">>, <<>>} /\ c_val \notin {<<"-">>, <<>>}
            /\ q.ok /\ c.ok
            /\ \A x \in q.alleles \cup c.alleles : ~IsNaN(x))
           => Rule(q.alleles, c.alleles)]_vars

\* C9: the pass on the query value "9,10" and the candidate value "9,9" was a
\* match with the homozygous multiplier.
C9_Witness ==
  /\ pc = "loci"
  /\ li = 1
  /\ RawValue(query_profile, Loci(query_profile)[1]) = <<"9", ",", "1", "0">>
  /\ RawValue(database[1], Loci(query_profile)[1]) = <<"9", ",", "9">>
  /\ consistent = 1
  /\ clr = LrMatchHomozygous

\* the cell is blank, a dash, or not there
Blank(profile, key) ==
  \/ key \notin DOMAIN profile.val
  \/ profile.val[key] = NaNCell
  \/ Strip(profile.val[key]) \in {<<>>, <<"-">>}

\* C10: a pass of the loop over the loci at a locus where the query's or the
\* candidate's value is missing adds one to inconclusive and leaves clr,
\* compared, identity_matches, consistent, mutated and exclusions as they
\* were.
C10_MissingRule ==
  [][(/\ pc = "loci" /\ li < Len(Loci(query_profile))
      /\ \/ Blank(query_profile, Loci(query_profile)[li + 1])
         \/ Blank(database[ri], Loci(query_profile)[li + 1]))
     => /\ li' = li + 1
        /\ inconclusive' = inconclusive + 1
        /\ UNCHANGED <<clr, compared, identity_matches, consistent, mutated,
                       exclusions>>]_vars

====
